---- MODULE Spec2Model ----
(***************************************************************************)
(* Model of gymnasium.spaces.Dict (src/gymnasium/spaces/dict.py) and       *)
(* gymnasium.spaces.MultiBinary (src/gymnasium/spaces/multi_binary.py).    *)
(*                                                                         *)
(* Python values are records tagged by a field t ("int", "None", "list",   *)
(* "ndarray", "dict", ...); Space instances are records tagged by a field  *)
(* kind ("MultiBinary", "Dict"); kind "NotSpace" stands for any Python     *)
(* object that is not a Space and kind "None" for an object slot whose     *)
(* constructor has not (successfully) run.  A Python dict is the sequence  *)
(* of its items in insertion order.                                        *)
(***************************************************************************)
EXTENDS Integers, Sequences, FiniteSets, TLC

VARIABLES objs, ret, hist

vars == <<objs, ret, hist>>

(***************************************************************************)
(* Bounds of the model.                                                    *)
(***************************************************************************)
MaxN == 2          \* MultiBinary(n) for n in 1..MaxN
NStrKeys == 2      \* string keys "a", "b", ... by rank
MaxChildren == 2   \* children of one Dict
RngMod == 4        \* number of states of a RandomSource
MaxSeed == 1       \* integer seeds 0..MaxSeed
MaxSamples == 2    \* sample() calls recorded after an integer seed
MaxBatch == 2      \* length of a batch of samples

(***************************************************************************)
(* Keys.  A str key is its rank in the string order; an int key its value. *)
(* Python's < between a str and an int raises TypeError.                   *)
(***************************************************************************)
StrKey(i) == [t |-> "str", v |-> i]
IntKey(i) == [t |-> "int", v |-> i]
StrKeys == {StrKey(i) : i \in 1..NStrKeys}
IntKeys == {IntKey(1)}
Keys == StrKeys \cup IntKeys

Range(s) == {s[i] : i \in 1..Len(s)}
KeysOf(items) == [i \in 1..Len(items) |-> items[i].key]
KeySet(items) == {items[i].key : i \in 1..Len(items)}
UniqueKeys(items) == \A i, j \in 1..Len(items) : items[i].key = items[j].key => i = j
HasKey(items, k) == \E i \in 1..Len(items) : items[i].key = k
IndexOf(items, k) == CHOOSE i \in 1..Len(items) : items[i].key = k
Item(k, val) == [key |-> k, val |-> val]

(***************************************************************************)
(* Space instances.  rng = -1: the RandomSource is not created yet (it is  *)
(* created lazily, from fresh entropy, on first use).                      *)
(***************************************************************************)
MultiBinary(n) == [kind |-> "MultiBinary", n |-> n, rng |-> -1]
DictOf(items) == [kind |-> "Dict", spaces |-> items, rng |-> -1]
NotSpace == [kind |-> "NotSpace"]
NoObject == [kind |-> "None"]
Raised == [kind |-> "Raised"]     \* the constructor raised: no object
IsSpace(x) == x.kind \in {"MultiBinary", "Dict"}

(***************************************************************************)
(* Python dict primitives on item sequences.                               *)
(***************************************************************************)
Lookup(items, k) == items[IndexOf(items, k)].val

\* d[k] = v: an existing key keeps its position, a new key goes last.
DictSet(items, k, v) ==
    IF HasKey(items, k)
    THEN [items EXCEPT ![IndexOf(items, k)] = Item(k, v)]
    ELSE Append(items, Item(k, v))

\* dict(pairs) for a sequence of (key, value) pairs.
RECURSIVE PyDict(_)
PyDict(pairs) ==
    IF pairs = <<>> THEN <<>>
    ELSE LET n == Len(pairs)
         IN DictSet(PyDict(SubSeq(pairs, 1, n - 1)), pairs[n].key, pairs[n].val)

\* Whether sorted() can compare every two keys (str < int raises TypeError).
Comparable(items) == \A i, j \in 1..Len(items) : items[i].key.t = items[j].key.t

InsertSorted(sorted, it) ==
    LET before == {i \in 1..Len(sorted) : sorted[i].key.v < it.key.v}
        n == Cardinality(before)
    IN SubSeq(sorted, 1, n) \o <<it>> \o SubSeq(sorted, n + 1, Len(sorted))

\* sorted(spaces.items()) on items with distinct, comparable keys.
RECURSIVE SortedItems(_)
SortedItems(items) ==
    IF items = <<>> THEN <<>>
    ELSE LET n == Len(items)
         IN InsertSorted(SortedItems(SubSeq(items, 1, n - 1)), items[n])

(***************************************************************************)
(* Dict.__init__(spaces, seed=None, **spaces_kwargs)                       *)
(***************************************************************************)
Raise(kind) == [status |-> kind]

\* Mutant: a plain mapping is taken in insertion order, never sorted.
NormalizeSpacesUnsorted(arg) ==
    IF arg.t \in {"OrderedDict", "dict"} THEN [status |-> "ok", items |-> arg.items]
    ELSE IF arg.t = "list" THEN [status |-> "ok", items |-> PyDict(arg.items)]
    ELSE IF arg.t = "None" THEN [status |-> "ok", items |-> <<>>]
    ELSE Raise("TypeError")

\* dict.py 71-89: the accepted forms of the spaces argument.
NormalizeSpaces(arg) ==
    CASE arg.t = "OrderedDict" -> [status |-> "ok", items |-> arg.items]
      [] arg.t = "dict" ->
            IF Comparable(arg.items)
            THEN [status |-> "ok", items |-> SortedItems(arg.items)]
            ELSE [status |-> "ok", items |-> arg.items]
      [] arg.t = "list" -> [status |-> "ok", items |-> PyDict(arg.items)]
      [] arg.t = "None" -> [status |-> "ok", items |-> <<>>]
      [] OTHER -> Raise("TypeError")

\* dict.py 92-98: keyword children are appended; a duplicate key raises.
RECURSIVE MergeKwargs(_, _)
MergeKwargs(items, kwargs) ==
    IF kwargs = <<>> THEN [status |-> "ok", items |-> items]
    ELSE IF HasKey(items, Head(kwargs).key) THEN Raise("ValueError")
    ELSE MergeKwargs(Append(items, Head(kwargs)), Tail(kwargs))

\* dict.py 100-104: every value is a Space.
AllSpaces(items) == \A i \in 1..Len(items) : IsSpace(items[i].val)

DictInit(arg, kwargs) ==
    LET norm == NormalizeSpaces(arg)
    IN IF norm.status # "ok" THEN [status |-> norm.status, obj |-> Raised]
       ELSE LET merged == MergeKwargs(norm.items, kwargs)
            IN IF merged.status # "ok" THEN [status |-> merged.status, obj |-> Raised]
               ELSE IF ~AllSpaces(merged.items)
                    THEN [status |-> "AssertionError", obj |-> Raised]
                    ELSE [status |-> "ok", obj |-> DictOf(merged.items)]

(***************************************************************************)
(* Dict.__setitem__, Dict.__eq__, MultiBinary.__eq__                       *)
(***************************************************************************)
\* Mutant: the isinstance assertion of __setitem__ is dropped.
DictSetItemUnchecked(d, key, value) ==
    [status |-> "ok", obj |-> [d EXCEPT !.spaces = DictSet(d.spaces, key, value)]]

DictSetItem(d, key, value) ==
    IF ~IsSpace(value) THEN [status |-> "AssertionError", obj |-> d]
    ELSE [status |-> "ok", obj |-> [d EXCEPT !.spaces = DictSet(d.spaces, key, value)]]

RECURSIVE SpaceEq(_, _)
\* dict == dict: equal key sets and equal values key by key, in any order.
PyDictEq(a, b) ==
    /\ Len(a) = Len(b)
    /\ \A i \in 1..Len(a) :
          /\ HasKey(b, a[i].key)
          /\ SpaceEq(a[i].val, Lookup(b, a[i].key))

MultiBinaryEq(self, other) == other.kind = "MultiBinary" /\ self.n = other.n

DictEq(self, other) == other.kind = "Dict" /\ PyDictEq(self.spaces, other.spaces)

SpaceEq(a, b) ==
    CASE a.kind = "MultiBinary" -> MultiBinaryEq(a, b)
      [] a.kind = "Dict" -> DictEq(a, b)
      [] OTHER -> a = b

(***************************************************************************)
(* RandomSource (numpy Generator) and the base Space.seed: a generator     *)
(* state is a number below RngMod, a draw advances it, and the value drawn *)
(* is read off the new state.  Uniform floats are s / RngMod, in [0, 1).   *)
(***************************************************************************)
Int32Max == 2147483647
ProbDen == 2       \* probabilities are 0/ProbDen .. ProbDen/ProbDen

PyNone == [t |-> "None"]
PyInt(v) == [t |-> "int", v |-> v]
\* A one-axis array; arrays of more axes keep their elements flat in data.
NdArray(dtype, data) ==
    [t |-> "ndarray", dtype |-> dtype, shape |-> <<Len(data)>>, data |-> data]
PyDictVal(items) == [t |-> "dict", items |-> items]

Entropy == 0..(RngMod - 1)
RngSeed(k) == k % RngMod
RngAfter(s, i) == (s + 3 * i) % RngMod
\* integers(high): a value in [0, high).
RngInteger(s, high) == IF high <= RngMod THEN (s * high) \div RngMod ELSE s
\* random() <= p, for p = num / ProbDen.
RngUniformLe(s, num) == s * ProbDen <= num * RngMod

\* The np_random property: created from fresh entropy e when absent.
NpRandom(self, e) == IF self.rng = -1 THEN RngSeed(e) ELSE self.rng

\* Space.seed(seed) of the base class: returns the seed used.
SpaceSeed(self, seed, e) ==
    CASE seed.t = "None" ->
            [status |-> "ok", space |-> [self EXCEPT !.rng = RngSeed(e)], report |-> PyInt(e)]
      [] seed.t = "int" ->
            [status |-> "ok", space |-> [self EXCEPT !.rng = RngSeed(seed.v)], report |-> seed]
      [] OTHER -> [status |-> "Error", space |-> self, report |-> PyNone]

(***************************************************************************)
(* MultiBinary.sample(mask, probability)                                   *)
(***************************************************************************)
\* multi_binary.py 43-55: n is an int, and positive.
MultiBinaryInit(n) ==
    IF n > 0 THEN [status |-> "ok", obj |-> MultiBinary(n)]
    ELSE [status |-> "AssertionError", obj |-> Raised]

Shape(self) == <<self.n>>

ValidMask(self, mask) ==
    /\ mask.t = "ndarray"
    /\ mask.dtype = "int8"
    /\ mask.shape = Shape(self)
    /\ \A i \in 1..Len(mask.data) : mask.data[i] \in {0, 1, 2}

ValidProbability(self, probability) ==
    /\ probability.t = "ndarray"
    /\ probability.dtype = "float64"
    /\ probability.shape = Shape(self)
    /\ \A i \in 1..Len(probability.data) :
          probability.data[i] >= 0 /\ probability.data[i] <= ProbDen

\* integers(low=0, high=2, size=n, dtype=int8) from generator state s.
DrawBits(s, n) == [i \in 1..n |-> RngInteger(RngAfter(s, i), 2)]

\* Mutant: the two branches of np.where are swapped.
MaskedBitsSwapped(mask, draws) ==
    [i \in 1..Len(mask) |-> IF mask[i] = 2 THEN mask[i] ELSE draws[i]]

\* multi_binary.py 104-108: np.where(mask == 2, draws, mask).
MaskedBits(mask, draws) ==
    [i \in 1..Len(mask) |-> IF mask[i] = 2 THEN draws[i] ELSE mask[i]]

\* multi_binary.py 123: (random(size) <= probability).astype(int8).
BernoulliBits(s, prob) ==
    [i \in 1..Len(prob) |-> IF RngUniformLe(RngAfter(s, i), prob[i]) THEN 1 ELSE 0]

MultiBinarySample(self, mask, probability, e) ==
    LET s == NpRandom(self, e)
        drawn == [self EXCEPT !.rng = RngAfter(s, self.n)]
    IN IF mask.t # "None" /\ probability.t # "None"
       THEN [status |-> "ValueError", space |-> self, value |-> PyNone]
       ELSE IF mask.t # "None"
       THEN IF ~ValidMask(self, mask)
            THEN [status |-> "AssertionError", space |-> self, value |-> PyNone]
            ELSE [status |-> "ok", space |-> drawn,
                  value |-> NdArray("int8", MaskedBits(mask.data, DrawBits(s, self.n)))]
       ELSE IF probability.t # "None"
       THEN IF ~ValidProbability(self, probability)
            THEN [status |-> "AssertionError", space |-> self, value |-> PyNone]
            ELSE [status |-> "ok", space |-> drawn,
                  value |-> NdArray("int8", BernoulliBits(s, probability.data))]
       ELSE [status |-> "ok", space |-> drawn,
             value |-> NdArray("int8", DrawBits(s, self.n))]

(***************************************************************************)
(* Dict.seed(seed) and Dict.sample(mask, probability).  ent gives, for the *)
(* path of keys leading to a space, the fresh entropy that space would use.*)
(***************************************************************************)
\* The entropy a space at path draws when it needs some.
EntAt(ent, path) == IF path \in DOMAIN ent THEN ent[path] ELSE 0

RECURSIVE SeedSpace(_, _, _, _)
RECURSIVE SeedEach(_, _, _, _, _)
\* The dict comprehensions of Dict.seed: children are seeded one after the
\* other, and a failing child leaves the earlier ones reseeded.
SeedEach(items, todo, ent, path, report) ==
    IF todo = <<>> THEN [status |-> "ok", items |-> items, report |-> report]
    ELSE LET k == Head(todo).key
             i == IndexOf(items, k)
             r == SeedSpace(items[i].val, Head(todo).val, ent, Append(path, k))
             seeded == [items EXCEPT ![i] = Item(k, r.space)]
         IN IF r.status # "ok"
            THEN [status |-> r.status, items |-> seeded, report |-> report]
            ELSE SeedEach(seeded, Tail(todo), ent, path, Append(report, Item(k, r.report)))

\* Mutant: the Dict's own generator is not reseeded with the integer; the
\* sub-seeds come from whatever generator the Dict has.
SeedOwnSkipped(self, seed) == [self EXCEPT !.rng = NpRandom(self, 0)]

\* dict.py 132: super().seed(seed).
SeedOwn(self, seed) == SpaceSeed(self, seed, 0).space

\* Mutant: only checks that every seed key is a child key.
SeedKeysAreChildren(seedItems, spaces) == KeySet(seedItems) \subseteq KeySet(spaces)

\* dict.py 142: seed.keys() != self.spaces.keys() raises.
SameKeys(seedItems, spaces) == KeySet(seedItems) = KeySet(spaces)

\* dict.py 134-136: one sub-seed per child from the Dict's own generator.
SubSeeds(s, n) == [i \in 1..n |-> RngInteger(RngAfter(s, i), Int32Max)]

DictSeed(self, seed, ent, path) ==
    LET n == Len(self.spaces)
    IN CASE seed.t = "None" ->
              LET todo == [i \in 1..n |-> Item(self.spaces[i].key, PyNone)]
                  r == SeedEach(self.spaces, todo, ent, path, <<>>)
              IN [status |-> r.status,
                  space |-> [self EXCEPT !.spaces = r.items],
                  report |-> IF r.status = "ok" THEN PyDictVal(r.report) ELSE PyNone]
         [] seed.t = "int" ->
              LET own == SeedOwn(self, seed)
                  subseeds == SubSeeds(own.rng, n)
                  todo == [i \in 1..n |-> Item(self.spaces[i].key, PyInt(subseeds[i]))]
                  r == SeedEach(self.spaces, todo, ent, path, <<>>)
              IN [status |-> r.status,
                  space |-> [own EXCEPT !.spaces = r.items, !.rng = RngAfter(own.rng, n)],
                  report |-> IF r.status = "ok" THEN PyDictVal(r.report) ELSE PyNone]
         [] seed.t = "dict" ->
              IF ~SameKeys(seed.items, self.spaces)
              THEN [status |-> "ValueError", space |-> self, report |-> PyNone]
              ELSE LET r == SeedEach(self.spaces, seed.items, ent, path, <<>>)
                   IN [status |-> r.status,
                       space |-> [self EXCEPT !.spaces = r.items],
                       report |-> IF r.status = "ok" THEN PyDictVal(r.report) ELSE PyNone]
         [] OTHER -> [status |-> "TypeError", space |-> self, report |-> PyNone]

SeedSpace(sp, seed, ent, path) ==
    IF sp.kind = "Dict" THEN DictSeed(sp, seed, ent, path)
    ELSE SpaceSeed(sp, seed, EntAt(ent, path))

RECURSIVE SampleSpace(_, _, _, _, _)
RECURSIVE SampleEach(_, _, _, _, _, _, _)
\* The dict comprehensions of Dict.sample: children are sampled in stored key
\* order, child i with masks[i] and probs[i].
SampleEach(items, i, masks, probs, ent, path, value) ==
    IF i > Len(items) THEN [status |-> "ok", items |-> items, value |-> value]
    ELSE LET k == items[i].key
             r == SampleSpace(items[i].val, masks[i], probs[i], ent, Append(path, k))
             drawn == [items EXCEPT ![i] = Item(k, r.space)]
         IN IF r.status # "ok"
            THEN [status |-> r.status, items |-> drawn, value |-> value]
            ELSE SampleEach(drawn, i + 1, masks, probs, ent, path,
                            Append(value, Item(k, r.value)))

DictSample(self, mask, probability, ent, path) ==
    LET n == Len(self.spaces)
        nones == [i \in 1..n |-> PyNone]
        done(r) == [status |-> r.status,
                    space |-> [self EXCEPT !.spaces = r.items],
                    value |-> IF r.status = "ok" THEN PyDictVal(r.value) ELSE PyNone]
        fail(kind) == [status |-> kind, space |-> self, value |-> PyNone]
    IN IF mask.t # "None" /\ probability.t # "None" THEN fail("ValueError")
       ELSE IF mask.t # "None"
       THEN IF mask.t # "dict" THEN fail("AssertionError")
            ELSE IF KeySet(mask.items) # KeySet(self.spaces) THEN fail("AssertionError")
            ELSE done(SampleEach(self.spaces, 1,
                        [i \in 1..n |-> Lookup(mask.items, self.spaces[i].key)],
                        nones, ent, path, <<>>))
       ELSE IF probability.t # "None"
       THEN IF probability.t # "dict" THEN fail("AssertionError")
            ELSE IF KeySet(probability.items) # KeySet(self.spaces)
            THEN fail("AssertionError")
            ELSE done(SampleEach(self.spaces, 1, nones,
                        [i \in 1..n |-> Lookup(probability.items, self.spaces[i].key)],
                        ent, path, <<>>))
       ELSE done(SampleEach(self.spaces, 1, nones, nones, ent, path, <<>>))

SampleSpace(sp, mask, probability, ent, path) ==
    IF sp.kind = "Dict" THEN DictSample(sp, mask, probability, ent, path)
    ELSE MultiBinarySample(sp, mask, probability, EntAt(ent, path))

(***************************************************************************)
(* Inputs.                                                                 *)
(***************************************************************************)
SeqsUpTo(S, n) == UNION {[1..m -> S] : m \in 0..n}
Leaves == {MultiBinary(n) : n \in 1..MaxN}
EmptyDict == DictOf(<<>>)
Nested == DictOf(<<Item(StrKey(1), MultiBinary(1))>>)

ItemsOver(K, V) == {Item(k, v) : k \in K, v \in V}
UniqueItemSeqs(K, V, n) == {x \in SeqsUpTo(ItemsOver(K, V), n) : UniqueKeys(x)}

\* The spaces argument of Dict(...): a dict, an OrderedDict, a sequence of
\* pairs, None, or something else (an int).
SpacesArgs(K, V) ==
    {[t |-> f, items |-> it] :
        f \in {"dict", "OrderedDict"}, it \in UniqueItemSeqs(K, V, MaxChildren)}
    \cup {[t |-> "list", items |-> it] : it \in SeqsUpTo(ItemsOver(K, V), MaxChildren)}
    \cup {PyNone, PyInt(0)}

\* Keyword children: str keys, each once.
KwArgs(V) == UniqueItemSeqs(StrKeys, V, 1)

ArgLen(arg) == IF arg.t \in {"dict", "OrderedDict", "list"} THEN Len(arg.items) ELSE 0

\* The paths of the MultiBinary leaves below sp.
RECURSIVE LeafPaths(_, _)
LeafPaths(sp, path) ==
    IF sp.kind = "Dict"
    THEN UNION {LeafPaths(sp.spaces[i].val, Append(path, sp.spaces[i].key)) :
                   i \in 1..Len(sp.spaces)}
    ELSE IF sp.kind = "MultiBinary" THEN {path} ELSE {}

\* The leaves that draw fresh entropy: on seed(seed), those reached by None.
RECURSIVE NoneLeaves(_, _, _)
NoneLeaves(sp, seed, path) ==
    IF seed.t = "None" THEN LeafPaths(sp, path)
    ELSE IF sp.kind = "Dict" /\ seed.t = "dict"
    THEN UNION {NoneLeaves(sp.spaces[i].val, Lookup(seed.items, sp.spaces[i].key),
                           Append(path, sp.spaces[i].key)) :
                   i \in {j \in 1..Len(sp.spaces) : HasKey(seed.items, sp.spaces[j].key)}}
    ELSE {}

\* On sample(), the leaves whose RandomSource does not exist yet.
RECURSIVE UnsetLeaves(_, _)
UnsetLeaves(sp, path) ==
    IF sp.kind = "Dict"
    THEN UNION {UnsetLeaves(sp.spaces[i].val, Append(path, sp.spaces[i].key)) :
                   i \in 1..Len(sp.spaces)}
    ELSE IF sp.kind = "MultiBinary" /\ sp.rng = -1 THEN {path} ELSE {}

\* Seeds for a child: None, an int, a nested mapping.
LeafSeeds == {PyNone} \cup {PyInt(k) : k \in 0..MaxSeed}
ChildSeeds == {PyNone, PyInt(MaxSeed), PyDictVal(<<Item(StrKey(1), PyInt(0))>>)}
\* Seeds for a Dict: None, an int, another type, a mapping.
SeedArgs(K, S) ==
    LeafSeeds \cup {[t |-> "str"]}
              \cup {PyDictVal(it) : it \in UniqueItemSeqs(K, S, MaxChildren)}

NoHist == [seed |-> -1, report |-> PyNone, outs |-> <<>>]
NoRet == [op |-> "none"]

(***************************************************************************)
(* Operations on object i.                                                 *)
(***************************************************************************)
Construct(i, arg, kwargs) ==
    /\ objs[i] = NoObject
    /\ ArgLen(arg) + Len(kwargs) <= MaxChildren
    /\ LET r == DictInit(arg, kwargs)
       IN /\ objs' = [objs EXCEPT ![i] = r.obj]
          /\ ret' = [op |-> "init", self |-> i, arg |-> arg, kwargs |-> kwargs,
                     status |-> r.status]
    /\ hist' = [hist EXCEPT ![i] = NoHist]

ConstructMultiBinary(i, n) ==
    /\ objs[i] = NoObject
    /\ LET r == MultiBinaryInit(n)
       IN /\ objs' = [objs EXCEPT ![i] = r.obj]
          /\ ret' = [op |-> "init", self |-> i, arg |-> PyInt(n), kwargs |-> <<>>,
                     status |-> r.status]
    /\ hist' = [hist EXCEPT ![i] = NoHist]

SetItem(i, key, value) ==
    /\ objs[i].kind = "Dict"
    /\ HasKey(objs[i].spaces, key) \/ Len(objs[i].spaces) < MaxChildren
    /\ LET r == DictSetItem(objs[i], key, value)
       IN /\ objs' = [objs EXCEPT ![i] = r.obj]
          /\ ret' = [op |-> "setitem", self |-> i, key |-> key, value |-> value,
                     status |-> r.status]
    /\ hist' = [hist EXCEPT ![i] = NoHist]

Seed(i, seed) ==
    /\ IsSpace(objs[i])
    /\ \E ent \in [NoneLeaves(objs[i], seed, <<>>) -> Entropy] :
        LET r == SeedSpace(objs[i], seed, ent, <<>>)
        IN /\ objs' = [objs EXCEPT ![i] = r.space]
           /\ ret' = [op |-> "seed", self |-> i, seed |-> seed,
                      status |-> r.status, report |-> r.report]
           /\ hist' = [hist EXCEPT ![i] =
                         IF seed.t = "int" /\ r.status = "ok"
                         THEN [seed |-> seed.v, report |-> r.report, outs |-> <<>>]
                         ELSE NoHist]

Sample(i, mask, probability) ==
    /\ IsSpace(objs[i])
    /\ hist[i].seed >= 0 => Len(hist[i].outs) < MaxSamples
    /\ \E ent \in [UnsetLeaves(objs[i], <<>>) -> Entropy] :
        LET r == SampleSpace(objs[i], mask, probability, ent, <<>>)
        IN /\ objs' = [objs EXCEPT ![i] = r.space]
           /\ ret' = [op |-> "sample", self |-> i, mask |-> mask,
                      probability |-> probability,
                      status |-> r.status, value |-> r.value]
           /\ hist' = [hist EXCEPT ![i] =
                         IF /\ mask.t = "None" /\ probability.t = "None"
                            /\ hist[i].seed >= 0 /\ r.status = "ok"
                         THEN [hist[i] EXCEPT !.outs = Append(@, r.value)]
                         ELSE NoHist]

Eq(i, j) ==
    /\ objs[i].kind = "Dict"
    /\ objs[j].kind = "Dict"
    /\ ret' = [op |-> "eq", self |-> i, other |-> j, value |-> DictEq(objs[i], objs[j])]
    /\ UNCHANGED <<objs, hist>>

Init ==
    /\ objs = [i \in 1..2 |-> NoObject]
    /\ hist = [i \in 1..2 |-> NoHist]
    /\ ret = NoRet

(***************************************************************************)
(* Spec: the life of one Dict: construction in every accepted form, key    *)
(* assignment, seeding in every form, unconstrained sampling.              *)
(***************************************************************************)
LifeValues == {MultiBinary(1), EmptyDict, NotSpace}

LifeConstruct == \E arg \in SpacesArgs(StrKeys, LifeValues), kw \in KwArgs(LifeValues) :
                    Construct(1, arg, kw)
LifeSetItem == \E key \in StrKeys, value \in LifeValues : SetItem(1, key, value)
LifeSeed == \E seed \in SeedArgs(StrKeys, {PyNone, PyInt(0)}) : Seed(1, seed)
LifeSample == Sample(1, PyNone, PyNone)

Next == LifeConstruct \/ LifeSetItem \/ LifeSeed \/ LifeSample

Spec == Init /\ [][Next]_vars

\* A construction that gets as far as a child mapping holding a non-Space
\* value: the spaces argument has an accepted form, no keyword child repeats
\* one of its keys, and some key's last given value is not a Space.
GivenNonSpaceChild(arg, kwargs) ==
    LET argItems == IF arg.t = "None" THEN <<>> ELSE arg.items
        given == argItems \o kwargs
    IN /\ \A i \in 1..Len(kwargs) : ~HasKey(argItems, kwargs[i].key)
       /\ \E i \in 1..Len(given) :
             /\ ~IsSpace(given[i].val)
             /\ \A j \in (i + 1)..Len(given) : given[j].key # given[i].key

C9_StateInv ==
    /\ objs[1].kind = "Dict" =>
          \A i \in 1..Len(objs[1].spaces) : IsSpace(objs[1].spaces[i].val)
    /\ (/\ ret.op = "init"
        /\ ret.arg.t \in {"dict", "OrderedDict", "list", "None"}
        /\ GivenNonSpaceChild(ret.arg, ret.kwargs))
          => ret.status = "AssertionError" /\ objs[1].kind # "Dict"

C9_SetItemStep ==
    (ret'.op = "setitem" /\ ~IsSpace(ret'.value))
       => ret'.status = "AssertionError" /\ objs' = objs

\* C9: in every state reached by a construction followed by key assignments,
\* seed calls and sample calls, every stored child is a Space; a construction
\* whose child mapping holds a non-Space value fails with AssertionError and
\* yields no Dict; a key assignment of a non-Space value fails with
\* AssertionError and leaves the child mapping unchanged.
C9_ChildTypeInvariant == []C9_StateInv /\ [][C9_SetItemStep]_vars

\* C9 witness: a seeded and sampled Dict with a child has just rejected the
\* assignment of a non-Space value.
C9_Witness ==
    /\ ret.op = "setitem" /\ ret.status = "AssertionError"
    /\ objs[1].kind = "Dict" /\ Len(objs[1].spaces) >= 1
    /\ objs[1].rng >= 0
    /\ \E i \in 1..Len(objs[1].spaces) : objs[1].spaces[i].val.rng >= 0

(***************************************************************************)
(* SpecInit: construction in every accepted form, over str and int keys,   *)
(* and key assignment.                                                     *)
(***************************************************************************)
InitValues == {MultiBinary(1), NotSpace}

InitConstruct == \E arg \in SpacesArgs(Keys, InitValues), kw \in KwArgs(InitValues) :
                    Construct(1, arg, kw)
InitSetItem == \E key \in Keys, value \in InitValues : SetItem(1, key, value)

NextInit == InitConstruct \/ InitSetItem

SpecInit == Init /\ [][NextInit]_vars

\* Keys that sorted() can order: all str, or all int.
MutuallyComparable(items) ==
    \A i, j \in 1..Len(items) : items[i].key.t = items[j].key.t
SortedKeys(items) ==
    \A i, j \in 1..Len(items) : i < j => items[i].key.v < items[j].key.v

\* C8: a Dict constructed from a plain mapping with no keyword children
\* stores the mapping's items with the keys in sorted order when the keys are
\* mutually comparable, whatever the insertion order; from a mapping mixing
\* int and str keys it is constructed without failure and stores the items
\* in the mapping's insertion order.
C8_ConstructionOrdering ==
    (/\ ret.op = "init"
     /\ ret.arg.t = "dict"
     /\ ret.kwargs = <<>>
     /\ \A i \in 1..Len(ret.arg.items) : IsSpace(ret.arg.items[i].val))
    => /\ ret.status = "ok"
       /\ objs[1].kind = "Dict"
       /\ Range(objs[1].spaces) = Range(ret.arg.items)
       /\ Len(objs[1].spaces) = Len(ret.arg.items)
       /\ MutuallyComparable(ret.arg.items) => SortedKeys(objs[1].spaces)
       /\ ~MutuallyComparable(ret.arg.items) => objs[1].spaces = ret.arg.items

\* C8 witness: a mapping inserted in descending key order was stored sorted.
C8_Witness ==
    /\ ret.op = "init" /\ ret.arg.t = "dict" /\ ret.kwargs = <<>> /\ ret.status = "ok"
    /\ Len(ret.arg.items) = 2
    /\ ret.arg.items[1].key = StrKey(2) /\ ret.arg.items[2].key = StrKey(1)
    /\ KeysOf(objs[1].spaces) = <<StrKey(1), StrKey(2)>>

\* C8 witness for the mixed case is reachable too: int and str keys kept in
\* insertion order.
C8_MixedReached ==
    /\ ret.op = "init" /\ ret.arg.t = "dict" /\ ret.status = "ok"
    /\ Len(ret.arg.items) = 2 /\ ~MutuallyComparable(ret.arg.items)
    /\ objs[1].spaces = ret.arg.items

(***************************************************************************)
(* SpecEq: two Dicts, each constructed in any accepted form and changed by *)
(* key assignment, compared with ==.                                       *)
(***************************************************************************)
EqConstruct == \E i \in 1..2, arg \in SpacesArgs(StrKeys, Leaves), kw \in KwArgs(Leaves) :
                  Construct(i, arg, kw)
EqSetItem == \E i \in 1..2, key \in StrKeys, value \in Leaves : SetItem(i, key, value)
EqCompare == Eq(1, 2)

NextEq == EqConstruct \/ EqSetItem \/ EqCompare

SpecEq == Init /\ [][NextEq]_vars

PairwiseDistinct(items) ==
    \A i, j \in 1..Len(items) : items[i].val = items[j].val => i = j

\* C2: Dicts with identical stored key sequences and key-to-child pairs
\* compare equal; Dicts holding the same keys mapped to the same, pairwise
\* distinct, children in a different stored key order compare not equal.
C2_OrderSensitiveEq ==
    ret.op = "eq" =>
       /\ objs[1].spaces = objs[2].spaces => ret.value
       /\ (/\ Range(objs[1].spaces) = Range(objs[2].spaces)
           /\ PairwiseDistinct(objs[1].spaces)
           /\ KeysOf(objs[1].spaces) # KeysOf(objs[2].spaces)) => ~ret.value

\* The half of C2 the code keeps: identical Dicts compare equal.
C2_IdenticalEqual ==
    (ret.op = "eq" /\ objs[1].spaces = objs[2].spaces) => ret.value

(***************************************************************************)
(* SpecSeed: one Dict, with leaf and nested children, seeded in every form.*)
(***************************************************************************)
SeedValues == {MultiBinary(1), Nested}

SeedConstruct ==
    \E items \in UniqueItemSeqs(StrKeys, SeedValues, MaxChildren) :
       Construct(1, [t |-> "dict", items |-> items], <<>>)
SeedSeed == \E seed \in SeedArgs(StrKeys, ChildSeeds) : Seed(1, seed)

NextSeed == SeedConstruct \/ SeedSeed

SpecSeed == Init /\ [][NextSeed]_vars

\* What seeding a space with an entry leaves behind: an int entry fixes a
\* leaf's generator and is the leaf's report; None gives the leaf a fresh
\* generator whose seed is the report; a Dict reports one entry per child,
\* and a mapping entry is handed down key by key.
RECURSIVE SeededWith(_, _, _)
SeededWith(sp, entry, report) ==
    IF sp.kind = "MultiBinary"
    THEN /\ report.t = "int"
         /\ sp.rng = report.v % RngMod
         /\ entry.t = "int" => report = entry
    ELSE /\ report.t = "dict"
         /\ KeysOf(report.items) \in {KeysOf(sp.spaces)} \cup
               (IF entry.t = "dict" THEN {KeysOf(entry.items)} ELSE {})
         /\ KeySet(report.items) = KeySet(sp.spaces)
         /\ entry.t = "int" => sp.rng >= 0
         /\ \A i \in 1..Len(sp.spaces) :
               LET k == sp.spaces[i].key
               IN SeededWith(sp.spaces[i].val,
                             IF entry.t = "dict" THEN Lookup(entry.items, k)
                             ELSE IF entry.t = "int" THEN Lookup(report.items, k)
                             ELSE entry,
                             Lookup(report.items, k))

C6_StateInv ==
    (ret.op = "seed" /\ ret.seed.t = "dict") =>
       IF KeySet(ret.seed.items) = KeySet(objs[1].spaces)
       THEN ret.status = "ok" =>
               /\ ret.report.t = "dict"
               /\ KeySet(ret.report.items) = KeySet(objs[1].spaces)
               /\ \A i \in 1..Len(objs[1].spaces) :
                     LET k == objs[1].spaces[i].key
                     IN SeededWith(objs[1].spaces[i].val, Lookup(ret.seed.items, k),
                                   Lookup(ret.report.items, k))
       ELSE ret.status = "ValueError"

C6_MismatchStep ==
    (/\ ret'.op = "seed" /\ ret'.seed.t = "dict"
     /\ KeySet(ret'.seed.items) # KeySet(objs[1].spaces))
       => objs' = objs

\* C6: Dict.seed with a mapping whose key set is the child key set seeds
\* every child with its own entry and reports, per child key, that child's
\* seed report (when every child accepts its entry); with a key set that
\* differs in either direction it fails with ValueError and reseeds nothing.
C6_SeedMapping == []C6_StateInv /\ [][C6_MismatchStep]_vars

\* C6 witness: a Dict with a leaf and a nested child was seeded with a
\* mapping naming both, the nested entry itself a mapping.
C6_Witness ==
    /\ ret.op = "seed" /\ ret.seed.t = "dict" /\ ret.status = "ok"
    /\ Len(objs[1].spaces) = 2
    /\ \E i \in 1..2 : /\ objs[1].spaces[i].val.kind = "Dict"
                       /\ Lookup(ret.seed.items, objs[1].spaces[i].key).t = "dict"
    /\ \E i \in 1..2 : /\ objs[1].spaces[i].val.kind = "MultiBinary"
                       /\ Lookup(ret.seed.items, objs[1].spaces[i].key) = PyInt(1)
                       /\ objs[1].spaces[i].val.rng = 1

\* C6: the failure case is reached both ways, a child key missing from the
\* mapping and a mapping key that is no child.
C6_MissingKeyReached ==
    /\ ret.op = "seed" /\ ret.seed.t = "dict" /\ ret.status = "ValueError"
    /\ KeySet(ret.seed.items) \subseteq KeySet(objs[1].spaces)
    /\ KeySet(ret.seed.items) # KeySet(objs[1].spaces)
    /\ \E i \in 1..Len(objs[1].spaces) : objs[1].spaces[i].val.rng >= 0

(***************************************************************************)
(* SpecDet: two spaces, each constructed, seeded with integers and sampled *)
(* on its own.  hist[i] keeps the last integer seed of object i, the seed  *)
(* report and the samples drawn since.                                     *)
(***************************************************************************)
DetItems ==
    UniqueItemSeqs(StrKeys, {MultiBinary(1)}, MaxChildren)
    \cup {<<Item(StrKey(1), Nested), Item(StrKey(2), MultiBinary(MaxN))>>}

DetConstruct == \E i \in 1..2, items \in DetItems :
                   Construct(i, [t |-> "OrderedDict", items |-> items], <<>>)
DetConstructLeaf == \E i \in 1..2, n \in 0..MaxN : ConstructMultiBinary(i, n)
DetSeed == \E i \in 1..2, k \in 0..MaxSeed : Seed(i, PyInt(k))
DetSample == \E i \in 1..2 : Sample(i, PyNone, PyNone)

NextDet == DetConstruct \/ DetConstructLeaf \/ DetSeed \/ DetSample

SpecDet == Init /\ [][NextDet]_vars

\* A space without its generators.
RECURSIVE Structure(_)
Structure(sp) ==
    IF sp.kind = "Dict"
    THEN [kind |-> "Dict",
          spaces |-> [i \in 1..Len(sp.spaces) |->
                        Item(sp.spaces[i].key, Structure(sp.spaces[i].val))]]
    ELSE IF sp.kind = "MultiBinary" THEN [kind |-> "MultiBinary", n |-> sp.n]
    ELSE sp

\* The same keys mapped to structurally identical children, in any order.
RECURSIVE SameChildren(_, _)
SameChildren(a, b) ==
    IF a.kind = "Dict" /\ b.kind = "Dict"
    THEN /\ KeySet(a.spaces) = KeySet(b.spaces)
         /\ \A i \in 1..Len(a.spaces) :
               SameChildren(a.spaces[i].val, Lookup(b.spaces, a.spaces[i].key))
    ELSE a.kind = "MultiBinary" /\ b.kind = "MultiBinary" /\ a.n = b.n

\* Two Python values equal as Python compares them: dicts as mappings,
\* whatever their insertion order.
RECURSIVE SameValue(_, _)
SameValue(x, y) ==
    IF x.t = "dict" /\ y.t = "dict"
    THEN /\ KeySet(x.items) = KeySet(y.items)
         /\ Len(x.items) = Len(y.items)
         /\ \A i \in 1..Len(x.items) :
               SameValue(x.items[i].val, Lookup(y.items, x.items[i].key))
    ELSE x = y

Min(a, b) == IF a < b THEN a ELSE b

SameRuns ==
    /\ SameValue(hist[1].report, hist[2].report)
    /\ \A n \in 1..Min(Len(hist[1].outs), Len(hist[2].outs)) :
          SameValue(hist[1].outs[n], hist[2].outs[n])

BothSeededAlike ==
    /\ IsSpace(objs[1]) /\ IsSpace(objs[2])
    /\ hist[1].seed >= 0 /\ hist[1].seed = hist[2].seed

\* C3 as stated: two MultiBinary spaces of the same shape, or two Dicts with
\* the same keys mapped to structurally identical children, seeded with the same integer, report the same seeds
\* and draw the same samples.
C3_AsStated == (BothSeededAlike /\ SameChildren(objs[1], objs[2])) => SameRuns

\* C3 amended: two MultiBinary spaces of the same shape, or two Dicts with
\* the same keys, in the same stored order at every level, mapped to
\* structurally identical children, seeded with the same integer, report
\* the same seeds and draw the same samples at every step.
C3_SeedDeterminism ==
    (BothSeededAlike /\ Structure(objs[1]) = Structure(objs[2])) => SameRuns

\* C3 witness: two Dicts with a nested child, seeded alike, have each drawn
\* MaxSamples samples.
C3_Witness ==
    /\ BothSeededAlike /\ Structure(objs[1]) = Structure(objs[2])
    /\ objs[1].kind = "Dict"
    /\ \E i \in 1..Len(objs[1].spaces) : objs[1].spaces[i].val.kind = "Dict"
    /\ Len(hist[1].outs) = MaxSamples /\ Len(hist[2].outs) = MaxSamples

(***************************************************************************)
(* SpecSample: one space, a MultiBinary or a Dict of MultiBinary children, *)
(* sampled with a mask, with a probability, with both or with neither.     *)
(***************************************************************************)
\* Masks offered to MultiBinary(n): every int8 array of n entries in
\* {0,1,2}, and arrays of a wrong shape, a wrong dtype, a wrong value.
LeafMasks(n) ==
    {NdArray("int8", d) : d \in [1..n -> {0, 1, 2}]}
    \cup {NdArray("int8", [i \in 1..(n + 1) |-> 2]),
          NdArray("int64", [i \in 1..n |-> 2]),
          NdArray("int8", [i \in 1..n |-> 3])}

\* Probabilities offered to MultiBinary(n): every float64 array of n entries
\* k/ProbDen in [0,1], and arrays of a wrong shape or a value above 1.
LeafProbabilities(n) ==
    {NdArray("float64", d) : d \in [1..n -> 0..ProbDen]}
    \cup {NdArray("float64", [i \in 1..(n + 1) |-> 0]),
          NdArray("float64", [i \in 1..n |-> ProbDen + 1])}

\* Mappings giving each child, in stored key order, one of its arguments
\* (leafArgs[n] are the arguments offered to MultiBinary(n)).
RECURSIVE ArgItems(_, _, _)
ArgItems(spaces, i, leafArgs) ==
    IF i > Len(spaces) THEN {<<>>}
    ELSE {<<Item(spaces[i].key, a)>> \o rest :
             a \in leafArgs[spaces[i].val.n], rest \in ArgItems(spaces, i + 1, leafArgs)}

\* The arguments offered to a space: for a Dict, the mappings over its keys,
\* a mapping with no key, a mapping with one key, and an array.
ArgsFor(sp, leafArgs) ==
    IF sp.kind = "MultiBinary" THEN leafArgs[sp.n]
    ELSE IF sp.kind = "Dict"
    THEN {PyDictVal(it) : it \in ArgItems(sp.spaces, 1, leafArgs)}
         \cup {PyDictVal(<<>>), NdArray("int8", <<2>>),
               PyDictVal(<<Item(StrKey(1), NdArray("int8", <<2>>))>>)}
    ELSE {}

MaskArgs == [n \in 1..MaxN |-> LeafMasks(n)]
ProbabilityArgs == [n \in 1..MaxN |-> LeafProbabilities(n)]

SampleItems ==
    UniqueItemSeqs(StrKeys, {MultiBinary(1)}, MaxChildren)
    \cup {<<Item(StrKey(1), MultiBinary(MaxN))>>}

SampleConstruct ==
    \E items \in SampleItems : Construct(1, [t |-> "dict", items |-> items], <<>>)
SampleConstructLeaf == \E n \in 0..MaxN : ConstructMultiBinary(1, n)
SampleMasked == \E mask \in ArgsFor(objs[1], MaskArgs) : Sample(1, mask, PyNone)
SampleWeighted == \E p \in ArgsFor(objs[1], ProbabilityArgs) : Sample(1, PyNone, p)
SampleBoth == Sample(1, NdArray("int8", <<2>>), NdArray("float64", <<0>>))
SamplePlain == Sample(1, PyNone, PyNone)

NextSample ==
    \/ SampleConstruct \/ SampleConstructLeaf
    \/ SampleMasked \/ SampleWeighted \/ SampleBoth \/ SamplePlain

SpecSample == Init /\ [][NextSample]_vars

\* What a leaf mask asks of the sample drawn with it.
ValidLeafMask(n, mask) ==
    /\ mask.t = "ndarray" /\ mask.dtype = "int8" /\ mask.shape = <<n>>
    /\ \A p \in 1..n : mask.data[p] \in {0, 1, 2}

MaskRespected(n, mask, value) ==
    /\ value.t = "ndarray" /\ value.shape = <<n>> /\ Len(value.data) = n
    /\ \A p \in 1..n :
          /\ mask.data[p] \in {0, 1} => value.data[p] = mask.data[p]
          /\ mask.data[p] = 2 => value.data[p] \in {0, 1}

\* C4: sample(mask=m), for a mask of the space's shape and int8 dtype with
\* entries in {0,1,2}, returns an array of the space's shape equal to m
\* wherever m is 0 or 1 and 0 or 1 wherever m is 2; through Dict.sample, with
\* a mapping over exactly the child keys, this holds for every MultiBinary
\* child and the result is a mapping over exactly the child keys.
C4_MaskedSampling ==
    (ret.op = "sample" /\ ret.probability.t = "None" /\ ret.mask.t # "None") =>
       IF objs[1].kind = "MultiBinary"
       THEN ValidLeafMask(objs[1].n, ret.mask) =>
               ret.status = "ok" /\ MaskRespected(objs[1].n, ret.mask, ret.value)
       ELSE (/\ ret.mask.t = "dict"
             /\ KeySet(ret.mask.items) = KeySet(objs[1].spaces)
             /\ \A i \in 1..Len(objs[1].spaces) :
                   ValidLeafMask(objs[1].spaces[i].val.n,
                                 Lookup(ret.mask.items, objs[1].spaces[i].key)))
            => /\ ret.status = "ok"
               /\ ret.value.t = "dict"
               /\ UniqueKeys(ret.value.items)
               /\ KeySet(ret.value.items) = KeySet(objs[1].spaces)
               /\ \A i \in 1..Len(objs[1].spaces) :
                     LET k == objs[1].spaces[i].key
                     IN MaskRespected(objs[1].spaces[i].val.n,
                                      Lookup(ret.mask.items, k),
                                      Lookup(ret.value.items, k))

\* C4 witness: Dict({"a": MultiBinary(MaxN)}) sampled with a mask fixing the
\* first bit to 1 and leaving the last free, which came out 1.
C4_Witness ==
    /\ ret.op = "sample" /\ ret.status = "ok" /\ ret.probability.t = "None"
    /\ objs[1].kind = "Dict" /\ Len(objs[1].spaces) = 1
    /\ objs[1].spaces[1].val.n = MaxN
    /\ ret.mask.t = "dict"
    /\ ret.mask.items[1].val.data = [p \in 1..MaxN |-> IF p = 1 THEN 1 ELSE 2]
    /\ ret.value.items[1].val.data = [p \in 1..MaxN |-> 1]

\* C4 on a MultiBinary itself, with a free bit that came out 0.
C4_LeafReached ==
    /\ ret.op = "sample" /\ ret.status = "ok" /\ ret.probability.t = "None"
    /\ objs[1].kind = "MultiBinary" /\ objs[1].n = MaxN
    /\ ret.mask.t = "ndarray" /\ ret.mask.data[1] = 2 /\ ret.value.data[1] = 0

ValidLeafProbability(n, p) ==
    /\ p.t = "ndarray" /\ p.dtype = "float64" /\ p.shape = <<n>>
    /\ \A q \in 1..n : p.data[q] \in 0..ProbDen

\* C5: on a MultiBinary, sample(probability=p) with p all zeros returns the
\* all-zero array and with p all ones the all-one array, whatever the
\* uniform draws are.
C5_ProbabilityExtremes ==
    (/\ ret.op = "sample" /\ ret.mask.t = "None" /\ objs[1].kind = "MultiBinary"
     /\ ValidLeafProbability(objs[1].n, ret.probability))
    => /\ ret.status = "ok"
       /\ (\A q \in 1..objs[1].n : ret.probability.data[q] = 0)
             => \A q \in 1..objs[1].n : ret.value.data[q] = 0
       /\ (\A q \in 1..objs[1].n : ret.probability.data[q] = ProbDen)
             => \A q \in 1..objs[1].n : ret.value.data[q] = 1

\* The half of C5 the code keeps: p all ones gives the all-one array.
C5_AllOnes ==
    (/\ ret.op = "sample" /\ ret.mask.t = "None" /\ objs[1].kind = "MultiBinary"
     /\ ValidLeafProbability(objs[1].n, ret.probability)
     /\ \A q \in 1..objs[1].n : ret.probability.data[q] = ProbDen)
    => ret.status = "ok" /\ \A q \in 1..objs[1].n : ret.value.data[q] = 1

(***************************************************************************)
(* to_jsonable, from_jsonable and contains.  A Python list is a record     *)
(* holding its items; a bool and a str are tagged like the other values.  *)
(* Each operation returns its status (the exception raised, or "ok") and   *)
(* its value.                                                              *)
(***************************************************************************)
PyList(items) == [t |-> "list", items |-> items]
PyBool(b) == [t |-> "bool", v |-> b]
PyStr == [t |-> "str"]
Returned(value) == [status |-> "ok", value |-> value]
Failed(kind) == [status |-> kind, value |-> PyNone]
First(S) == CHOOSE i \in S : \A j \in S : i <= j

\* The first failure among the results of a comprehension evaluated in
\* order, or the results themselves.
FirstFailure(rs) ==
    LET bad == {i \in 1..Len(rs) : rs[i].status # "ok"}
    IN IF bad = {} THEN 0 ELSE First(bad)

\* One row of a two-axis array under construction: a one-axis array or a
\* list of ints.
IsRow(x) ==
    \/ x.t = "ndarray" /\ Len(x.shape) = 1
    \/ x.t = "list" /\ \A i \in 1..Len(x.items) : x.items[i].t = "int"
RowData(x) ==
    IF x.t = "ndarray" THEN x.data ELSE [i \in 1..Len(x.items) |-> x.items[i].v]

\* np.array(x) on a str or on a list nested at most twice: a str gives a
\* zero-axis array, a list of ints a one-axis array, a list of equally long
\* rows a two-axis array; rows of different lengths, or rows mixed with
\* scalars, raise ValueError (inhomogeneous shape).
NpArray(x) ==
    IF x.t = "str"
    THEN Returned([t |-> "ndarray", dtype |-> "str", shape |-> <<>>, data |-> <<>>])
    ELSE IF x.items = <<>> THEN Returned(NdArray("float64", <<>>))
    ELSE IF IsRow(x) THEN Returned(NdArray("int64", RowData(x)))
    ELSE IF /\ \A i \in 1..Len(x.items) : IsRow(x.items[i])
            /\ \A i \in 1..Len(x.items) :
                  Len(RowData(x.items[i])) = Len(RowData(x.items[1]))
    THEN LET r == Len(x.items)
             c == Len(RowData(x.items[1]))
         IN Returned([t |-> "ndarray",
                      dtype |-> IF \A i \in 1..r : x.items[i].t = "ndarray"
                                THEN x.items[1].dtype ELSE "int64",
                      shape |-> <<r, c>>,
                      data |-> [q \in 1..(r * c) |->
                                   RowData(x.items[((q - 1) \div c) + 1])[((q - 1) % c) + 1]]])
    ELSE Failed("ValueError")

\* ndarray.tolist() for an array of one or two axes.
ToList(a) ==
    IF Len(a.shape) = 1
    THEN PyList([i \in 1..a.shape[1] |-> PyInt(a.data[i])])
    ELSE PyList([i \in 1..a.shape[1] |->
                    PyList([j \in 1..a.shape[2] |->
                               PyInt(a.data[(i - 1) * a.shape[2] + j])])])

\* multi_binary.py 140-142.
MultiBinaryToJsonable(self, sample_n) ==
    LET a == NpArray(sample_n)
    IN IF a.status # "ok" THEN a ELSE Returned(ToList(a.value))

\* np.asarray(sample, int8) for a list sample holding values int8 can hold.
AsInt8Array(sample) ==
    LET a == NpArray(sample)
    IN IF a.status # "ok" THEN a
       ELSE Returned([a.value EXCEPT !.dtype = "int8"])

\* multi_binary.py 144-146.
MultiBinaryFromJsonable(self, sample_n) ==
    LET rs == [i \in 1..Len(sample_n.items) |-> AsInt8Array(sample_n.items[i])]
        bad == FirstFailure(rs)
    IN IF bad # 0 THEN Failed(rs[bad].status)
       ELSE Returned(PyList([i \in 1..Len(rs) |-> rs[i].value]))

\* multi_binary.py 129-138.
MultiBinaryContains(self, x) ==
    LET a == IF x.t \in {"list", "str"} THEN NpArray(x) ELSE Returned(x)
    IN IF a.status # "ok" THEN a
       ELSE Returned(PyBool(/\ a.value.t = "ndarray"
                            /\ Shape(self) = a.value.shape
                            /\ \A q \in 1..Len(a.value.data) :
                                  a.value.data[q] \in {0, 1}))

RECURSIVE SpaceToJsonable(_, _)
RECURSIVE SpaceFromJsonable(_, _)
RECURSIVE SpaceContains(_, _)
RECURSIVE ContainsEach(_, _, _)

\* dict.py 240-246: one column per child, in stored key order.
DictToJsonable(self, sample_n) ==
    LET column(key) ==
            PyList([m \in 1..Len(sample_n.items) |-> Lookup(sample_n.items[m].items, key)])
        rs == [i \in 1..Len(self.spaces) |->
                 IF \E m \in 1..Len(sample_n.items) :
                       ~HasKey(sample_n.items[m].items, self.spaces[i].key)
                 THEN Failed("KeyError")
                 ELSE SpaceToJsonable(self.spaces[i].val, column(self.spaces[i].key))]
        bad == FirstFailure(rs)
    IN IF bad # 0 THEN Failed(rs[bad].status)
       ELSE Returned(PyDictVal([i \in 1..Len(rs) |->
                                   Item(self.spaces[i].key, rs[i].value)]))

\* Mutant: the batch size is taken from the last child.
BatchSizeOfLast(dict_of_list) ==
    IF dict_of_list = <<>> THEN -1
    ELSE Len(dict_of_list[Len(dict_of_list)].val.items)

\* dict.py 255: len(next(iter(dict_of_list.values()))); -1 stands for the
\* StopIteration of next() on an empty mapping.
BatchSize(dict_of_list) ==
    IF dict_of_list = <<>> THEN -1 ELSE Len(dict_of_list[1].val.items)

\* dict.py 248-260.
DictFromJsonable(self, sample_n) ==
    LET rs == [i \in 1..Len(self.spaces) |->
                 IF ~HasKey(sample_n.items, self.spaces[i].key)
                 THEN Failed("KeyError")
                 ELSE SpaceFromJsonable(self.spaces[i].val,
                                        Lookup(sample_n.items, self.spaces[i].key))]
        bad == FirstFailure(rs)
        dict_of_list == [i \in 1..Len(rs) |-> Item(self.spaces[i].key, rs[i].value)]
        n_elements == BatchSize(dict_of_list)
    IN IF bad # 0 THEN Failed(rs[bad].status)
       ELSE IF n_elements < 0 THEN Failed("StopIteration")
       ELSE IF \E i \in 1..Len(dict_of_list) :
                  Len(dict_of_list[i].val.items) < n_elements
       THEN Failed("IndexError")
       ELSE Returned(PyList([n \in 1..n_elements |->
                PyDictVal([i \in 1..Len(dict_of_list) |->
                    Item(dict_of_list[i].key, dict_of_list[i].val.items[n])])]))

\* dict.py 200: all(x[key] in self.spaces[key] for key in self.spaces.keys()),
\* which stops at the first child that answers False or raises.
ContainsEach(spaces, i, x) ==
    IF i > Len(spaces) THEN Returned(PyBool(TRUE))
    ELSE LET r == SpaceContains(spaces[i].val, Lookup(x.items, spaces[i].key))
         IN IF r.status # "ok" THEN r
            ELSE IF ~r.value.v THEN r
            ELSE ContainsEach(spaces, i + 1, x)

\* dict.py 197-201.
DictContains(self, x) ==
    IF x.t = "dict" /\ KeySet(x.items) = KeySet(self.spaces)
    THEN ContainsEach(self.spaces, 1, x)
    ELSE Returned(PyBool(FALSE))

SpaceToJsonable(sp, sample_n) ==
    IF sp.kind = "MultiBinary" THEN MultiBinaryToJsonable(sp, sample_n)
    ELSE DictToJsonable(sp, sample_n)

SpaceFromJsonable(sp, sample_n) ==
    IF sp.kind = "MultiBinary" THEN MultiBinaryFromJsonable(sp, sample_n)
    ELSE DictFromJsonable(sp, sample_n)

SpaceContains(sp, x) ==
    IF sp.kind = "MultiBinary" THEN MultiBinaryContains(sp, x)
    ELSE DictContains(sp, x)

(***************************************************************************)
(* Specification SpecJson: one space, encoded, decoded and tested for      *)
(* membership.                                                             *)
(***************************************************************************)
RECURSIVE ValuesOf(_, _)
RECURSIVE ValueItems(_, _, _)
\* The values shaped like the space sp whose leaves are drawn from leafArgs.
ValueItems(spaces, i, leafArgs) ==
    IF i > Len(spaces) THEN {<<>>}
    ELSE {<<Item(spaces[i].key, a)>> \o rest :
             a \in ValuesOf(spaces[i].val, leafArgs),
             rest \in ValueItems(spaces, i + 1, leafArgs)}
ValuesOf(sp, leafArgs) ==
    IF sp.kind = "MultiBinary" THEN leafArgs[sp.n]
    ELSE {PyDictVal(it) : it \in ValueItems(sp.spaces, 1, leafArgs)}

BitLists(n) == {PyList([i \in 1..n |-> PyInt(d[i])]) : d \in [1..n -> {0, 1}]}
\* Samples: int8 arrays of n bits.
LeafSamples == [n \in 1..MaxN |-> {NdArray("int8", d) : d \in [1..n -> {0, 1}]}]
\* Encoded batches of a leaf: up to MaxBatch lists of n bits.
LeafJsonables == [n \in 1..MaxN |-> {PyList(b) : b \in SeqsUpTo(BitLists(n), MaxBatch)}]
\* What contains is asked about a leaf: arrays over 0..2 of the right and of
\* a wrong length, lists of bits, a list of rows of different lengths, a
\* list of one row, a str, an int and None.
Ragged == PyList(<<PyList(<<PyInt(0), PyInt(1)>>), PyList(<<PyInt(0)>>)>>)
LeafCandidates ==
    [n \in 1..MaxN |->
        {NdArray("int8", d) : d \in [1..n -> 0..2]}
        \cup {NdArray("int8", [i \in 1..(n + 1) |-> 0])}
        \cup BitLists(n)
        \cup {Ragged, PyList(<<PyList(<<PyInt(0)>>)>>), PyStr, PyInt(0), PyNone}]

Batches(sp) == {PyList(b) : b \in SeqsUpTo(ValuesOf(sp, LeafSamples), MaxBatch)}
Candidates(sp) ==
    ValuesOf(sp, LeafCandidates)
    \cup {PyInt(0), PyDictVal(<<Item(IntKey(1), PyInt(0))>>)}

JsonItems ==
    UniqueItemSeqs(StrKeys, {MultiBinary(1)}, MaxChildren)
    \cup {<<Item(StrKey(1), MultiBinary(MaxN))>>,
          <<Item(StrKey(1), Nested), Item(StrKey(2), MultiBinary(1))>>,
          <<Item(StrKey(1), EmptyDict)>>}

ToJsonable(i, sample_n) ==
    /\ IsSpace(objs[i])
    /\ LET r == SpaceToJsonable(objs[i], sample_n)
       IN ret' = [op |-> "to_jsonable", self |-> i, batch |-> sample_n,
                  status |-> r.status, value |-> r.value]
    /\ UNCHANGED <<objs, hist>>

\* batch is the batch whose encoding sample_n is, or None.
FromJsonable(i, sample_n, batch) ==
    /\ IsSpace(objs[i])
    /\ LET r == SpaceFromJsonable(objs[i], sample_n)
       IN ret' = [op |-> "from_jsonable", self |-> i, arg |-> sample_n,
                  batch |-> batch, status |-> r.status, value |-> r.value]
    /\ UNCHANGED <<objs, hist>>

Contains(i, x) ==
    /\ IsSpace(objs[i])
    /\ LET r == SpaceContains(objs[i], x)
       IN ret' = [op |-> "contains", self |-> i, arg |-> x,
                  status |-> r.status, value |-> r.value]
    /\ UNCHANGED <<objs, hist>>

JsonConstruct ==
    \E items \in JsonItems : Construct(1, [t |-> "dict", items |-> items], <<>>)
JsonConstructLeaf == \E n \in 1..MaxN : ConstructMultiBinary(1, n)
\* to_jsonable, from_jsonable and contains leave the space as it is, so the
\* states they lead to are the same from the constructed space as after any
\* other call: each is taken from the constructed space, and the encoding of
\* a batch is then decoded.
Fresh == IsSpace(objs[1]) /\ ret.op = "init"
JsonEncode == Fresh /\ \E batch \in Batches(objs[1]) : ToJsonable(1, batch)
JsonDecodeEncoded ==
    /\ ret.op = "to_jsonable" /\ ret.status = "ok"
    /\ FromJsonable(1, ret.value, ret.batch)
JsonDecode ==
    Fresh /\ \E j \in ValuesOf(objs[1], LeafJsonables) : FromJsonable(1, j, PyNone)
JsonContains == Fresh /\ \E x \in Candidates(objs[1]) : Contains(1, x)

NextJson ==
    \/ JsonConstruct \/ JsonConstructLeaf
    \/ JsonEncode \/ JsonDecodeEncoded \/ JsonDecode \/ JsonContains

SpecJson == Init /\ [][NextJson]_vars

\* C1: for any Dict D (with any number of children, none included, nested
\* Dicts included) and any valid batch S, D.to_jsonable(S) returns and
\* D.from_jsonable of it returns a sequence as long as S whose n-th element
\* has the same keys and the same values as the n-th element of S.
C1_RoundTrip ==
    /\ (ret.op = "to_jsonable" /\ objs[1].kind = "Dict") => ret.status = "ok"
    /\ (ret.op = "from_jsonable" /\ objs[1].kind = "Dict" /\ ret.batch.t = "list") =>
          /\ ret.status = "ok"
          /\ ret.value.t = "list"
          /\ Len(ret.value.items) = Len(ret.batch.items)
          /\ \A n \in 1..Len(ret.batch.items) :
                SameValue(ret.value.items[n], ret.batch.items[n])

RECURSIVE HasEmptyDict(_)
HasEmptyDict(sp) ==
    /\ sp.kind = "Dict"
    /\ \/ sp.spaces = <<>>
       \/ \E i \in 1..Len(sp.spaces) : HasEmptyDict(sp.spaces[i].val)

\* The round trip where the code keeps it: D and its nested Dicts all have
\* a child.
C1_RoundTripWithChildren ==
    (/\ ret.op = "from_jsonable" /\ objs[1].kind = "Dict" /\ ret.batch.t = "list"
     /\ ~HasEmptyDict(objs[1]))
    => /\ ret.status = "ok"
       /\ ret.value.t = "list"
       /\ Len(ret.value.items) = Len(ret.batch.items)
       /\ \A n \in 1..Len(ret.batch.items) :
             SameValue(ret.value.items[n], ret.batch.items[n])

C1_NestedRoundTripReached ==
    /\ ret.op = "from_jsonable" /\ ret.status = "ok" /\ ret.batch.t = "list"
    /\ objs[1].kind = "Dict" /\ Len(objs[1].spaces) = 2
    /\ objs[1].spaces[1].val.kind = "Dict"
    /\ Len(ret.value.items) = MaxBatch

\* C7: contains returns a boolean for every input and never propagates a
\* failure; it answers false for a non-mapping or a mapping with another
\* key set given to a Dict, and for a list that does not coerce to a
\* rectangular array.
C7_ContainsNeverRaises ==
    ret.op = "contains" =>
       /\ ret.status = "ok"
       /\ ret.value.t = "bool"
       /\ (objs[1].kind = "Dict" /\ ret.arg.t # "dict") => ~ret.value.v
       /\ (objs[1].kind = "Dict" /\ ret.arg.t = "dict"
             /\ KeySet(ret.arg.items) # KeySet(objs[1].spaces)) => ~ret.value.v
       /\ ret.arg = Ragged => ~ret.value.v

\* What the code keeps of C7: contains raises only out of the coercion of a
\* list, and then ValueError.
C7_RaisesOnlyOnCoercion ==
    (ret.op = "contains" /\ ret.status # "ok") =>
        /\ ret.status = "ValueError"
        /\ objs[1].kind = "MultiBinary" => NpArray(ret.arg).status = "ValueError"

\* The decoded batch of every child, in stored key order, when every child
\* of the Dict objs[1] is in ret.arg and decodes.
Decoded(i) ==
    SpaceFromJsonable(objs[1].spaces[i].val,
                      Lookup(ret.arg.items, objs[1].spaces[i].key))
LengthMismatch ==
    /\ ret.op = "from_jsonable" /\ objs[1].kind = "Dict"
    /\ \A i \in 1..Len(objs[1].spaces) :
          HasKey(ret.arg.items, objs[1].spaces[i].key) /\ Decoded(i).status = "ok"
    /\ \E i, j \in 1..Len(objs[1].spaces) :
          Len(Decoded(i).value.items) # Len(Decoded(j).value.items)
Truncated ==
    /\ ret.status = "ok"
    /\ ret.value.t = "list"
    /\ Len(ret.value.items) = Len(Decoded(1).value.items)
    /\ \A n \in 1..Len(ret.value.items) :
          /\ ret.value.items[n].t = "dict"
          /\ KeySet(ret.value.items[n].items) = KeySet(objs[1].spaces)

\* C10 as stated: whenever the children's decoded batches differ in length,
\* wherever the shorter one is, from_jsonable returns a result as long as
\* the first child's batch, each element holding every child key.
C10_AsStated == LengthMismatch => Truncated

\* C10: when the children's decoded batches differ in length, from_jsonable
\* returns the result truncated to the first child's length, each element
\* holding every child key, if no child's batch is shorter than the first
\* child's; otherwise it fails with IndexError.
C10_LengthMismatch ==
    LengthMismatch =>
       IF \A i \in 1..Len(objs[1].spaces) :
             Len(Decoded(1).value.items) <= Len(Decoded(i).value.items)
       THEN Truncated
       ELSE ret.status = "IndexError"

\* C10 witness: the first child decodes to one element, the second to two,
\* and one element comes back.
C10_Witness ==
    /\ LengthMismatch /\ ret.status = "ok"
    /\ Len(objs[1].spaces) = 2
    /\ Len(Decoded(1).value.items) = 1 /\ Len(Decoded(2).value.items) = 2
    /\ Len(ret.value.items) = 1

C10_IndexErrorReached ==
    /\ LengthMismatch /\ ret.status = "IndexError"
    /\ Len(Decoded(1).value.items) = 2 /\ Len(Decoded(2).value.items) = 1

====
